---- MODULE Spec2Model ----
(***************************************************************************)
(* strudel-server (src/src/main.ts, the second program text, lines         *)
(* 143-593): a watched file is mirrored into the CodeMirror editor of a    *)
(* browser page.  The model has the file system, the fs.watch callback     *)
(* with its debounce timer, the executions of updateREPLContext (one per   *)
(* real change, each suspended at its awaits) and the page they act on,   *)
(* and, from the start of the process, the command line, the checks of     *)
(* the path, the launch of the browser, the initial load, the signal and   *)
(* watcher-error handlers and cleanup.                                     *)
(***************************************************************************)
EXTENDS Naturals, Integers, Sequences, FiniteSets, TLC

VARIABLES
    file,            \* the watched file on disk: exists, mtime, content
    events,          \* fs.watch notifications for the file, not yet delivered
    updateTimeout,   \* number of armed debounce timeouts
    lastMtime,       \* let lastMtime (main.ts:532)
    contents,        \* let contents (main.ts:492)
    syncs,           \* executions of updateREPLContext started by the timer
    page,            \* the browser page (DOM and the objects hung on it)
    doc,             \* the text the page's editor shows
    proc,            \* the process: "running" | "crashed" | "exited"
    watcher,         \* let watcher: "null" | "active" | "closed"
    life,            \* the main function: arguments, position, browser, exit
    injectOrder,     \* history: ids of syncs in the order they injected
    burstEvents,     \* history: events delivered since the last callback
    firesSinceEvent, \* history: timer callbacks run since the last event
    winDeleted,      \* history: the file was deleted since the last callback
    fireOutcome,     \* history: how the last timer callback ended
    unread,          \* history: the write whose read failed, 0 when none
    ops              \* history: file-system operations done so far

vars == <<file, events, updateTimeout, lastMtime, contents, syncs, page, doc,
          proc, watcher, injectOrder, burstEvents, firesSinceEvent,
          winDeleted, fireOutcome, ops, life, unread>>

(***************************************************************************)
(* Bounds.                                                                 *)
(***************************************************************************)
MaxOps == 3
MaxMtime == 2
MaxArgs == 2
MaxSignals == 2

(***************************************************************************)
(* Program constants.                                                      *)
(***************************************************************************)
FiberDepthCap == 30
SearchMaxDepth == 3
NumSelectors == 6
usageExitCode == 0
cleanupExitCode == 0
badPathExitCode == 1

MTimes == 1..MaxMtime
\* The text written by the n-th write to the file: every write is new text.
Written(n) == [i \in 1..n |-> "x"]
InitialContent == <<"z">>
watchFilename == "song"
FileNames == {watchFilename, "other"}

(***************************************************************************)
(* Objects found in the page.  An object is described by what the code     *)
(* asks of it: is it truthy, has it a truthy .state, has .state a .doc,    *)
(* and is .dispatch missing, a non-function value, or a function.          *)
(***************************************************************************)
NoObj == [truthy |-> FALSE, state |-> FALSE, doc |-> FALSE, dispatch |-> "none"]
Plain == [truthy |-> TRUE, state |-> FALSE, doc |-> FALSE, dispatch |-> "none"]
HalfView == [truthy |-> TRUE, state |-> TRUE, doc |-> FALSE, dispatch |-> "fn"]
ReadOnlyView == [truthy |-> TRUE, state |-> TRUE, doc |-> TRUE, dispatch |-> "none"]
BadDispatch == [truthy |-> TRUE, state |-> TRUE, doc |-> TRUE, dispatch |-> "value"]
View == [truthy |-> TRUE, state |-> TRUE, doc |-> TRUE, dispatch |-> "fn"]
Objects == {NoObj, Plain, HalfView, ReadOnlyView, BadDispatch, View}

\* The transactional update primitive: state with document, callable dispatch.
IsEditorView(o) == o.truthy /\ o.state /\ o.doc /\ o.dispatch = "fn"

NoPlace == [depth |-> 0, obj |-> NoObj]
FiberDepths == {0, FiberDepthCap - 1, FiberDepthCap}
SearchDepths == {1, SearchMaxDepth, SearchMaxDepth + 1}
FiberPlaces == {NoPlace} \cup [depth : FiberDepths, obj : Objects \ {NoObj}]
SearchPlaces == {NoPlace} \cup [depth : SearchDepths, obj : Objects \ {NoObj}]

SelectorOutcomes == {"null", "html", "svg", "throws"}
NoSelectorHit == [i \in 1..NumSelectors |-> "null"]
SelectorHits ==
    {NoSelectorHit} \cup
    {[NoSelectorHit EXCEPT ![i] = o] :
        i \in 1..NumSelectors, o \in SelectorOutcomes \ {"null"}}
\* Two selectors find something, one of them an HTMLElement.
SelectorPairs ==
    {[NoSelectorHit EXCEPT ![i] = o, ![j] = "html"] :
        i \in 1..NumSelectors, j \in 1..NumSelectors,
        o \in SelectorOutcomes \ {"null"}}

(***************************************************************************)
(* A page: editorEl is "#code .cm-editor", content is "#code .cm-content", *)
(* m1..m5 are what the five lookups of updateREPLContext come upon, sel    *)
(* is what document.querySelector gives for each of the six selectors,     *)
(* scan says whether a button matches the text scan.                       *)
(***************************************************************************)
GoodPage ==
    [editorEl |-> TRUE, content |-> "editable", clickable |-> TRUE,
     m1 |-> NoObj, m2 |-> View, m3 |-> NoObj, m4 |-> NoPlace, m5 |-> NoPlace,
     sel |-> [NoSelectorHit EXCEPT ![1] = "html"], scan |-> FALSE]
BarePage ==
    [GoodPage EXCEPT !.m2 = NoObj, !.sel = NoSelectorHit]
LoadingPage ==
    [BarePage EXCEPT !.content = "absent", !.clickable = FALSE]
BrokenPage ==
    [GoodPage EXCEPT !.m2 = HalfView]
StuckPage ==
    [GoodPage EXCEPT !.sel = NoSelectorHit, !.clickable = FALSE]

LocatorPages ==
    {[GoodPage EXCEPT !.m1 = a, !.m2 = b, !.m3 = c, !.m4 = d, !.m5 = e] :
        a \in Objects, b \in Objects, c \in Objects,
        d \in FiberPlaces, e \in SearchPlaces}
TriggerPages ==
    {[p EXCEPT !.sel = s, !.scan = b, !.clickable = k] :
        p \in {GoodPage, BarePage}, s \in SelectorHits \cup SelectorPairs,
        b \in BOOLEAN, k \in BOOLEAN}
DomPages ==
    {[p EXCEPT !.editorEl = e, !.content = c] :
        p \in {GoodPage, BarePage, [BarePage EXCEPT !.m3 = HalfView]},
        e \in BOOLEAN, c \in {"absent", "readonly", "editable"}}
AllPages == LocatorPages \cup TriggerPages \cup DomPages
MainPages == {GoodPage, BarePage, LoadingPage, BrokenPage, StuckPage}

(***************************************************************************)
(* The page function of the first page.evaluate (main.ts:171-311).         *)
(***************************************************************************)
\* Method 1: editorElement.CodeMirror, taken when truthy.
Method1(p) == IF p.m1.truthy THEN p.m1 ELSE NoObj

\* Method 2: walk up from the content element; the first ancestor with a
\* cmView gives cmView.view, whatever that is.
Method2(p, ev) ==
    IF ~ev.truthy /\ p.content # "absent" THEN p.m2 ELSE ev

\* Method 3: the own property of the editor element with state and a
\* dispatch function.
Method3(p, ev) ==
    IF ~ev.truthy /\ p.m3.truthy /\ p.m3.state /\ p.m3.dispatch = "fn"
    THEN p.m3 ELSE ev

\* Method 4: walk the fiber's return chain while depth < 30; a node's view
\* is taken when view.state.doc is there.
RECURSIVE FiberWalk(_, _)
FiberWalk(f, depth) ==
    IF ~(depth < FiberDepthCap) THEN NoObj
    ELSE IF f.depth = depth /\ f.obj.state /\ f.obj.doc THEN f.obj
    ELSE IF depth < f.depth THEN FiberWalk(f, depth + 1)
    ELSE NoObj

Method4(p, ev) ==
    IF ~ev.truthy /\ p.m4.obj.truthy THEN FiberWalk(p.m4, 0) ELSE ev

\* Method 5: search(code), returning null beyond maxDepth; an object is
\* taken when it has state, dispatch and state.doc.
RECURSIVE Search(_, _)
Search(s, currentDepth) ==
    IF currentDepth > SearchMaxDepth THEN NoObj
    ELSE IF s.depth = currentDepth /\ s.obj.state /\ s.obj.dispatch # "none"
            /\ s.obj.doc THEN s.obj
    ELSE IF currentDepth < s.depth THEN Search(s, currentDepth + 1)
    ELSE NoObj

Method5(p, ev) ==
    IF ~ev.truthy /\ p.m5.obj.truthy THEN Search(p.m5, 0) ELSE ev

\* let editorView after the five methods.
Locate(p) == Method5(p, Method4(p, Method3(p, Method2(p, Method1(p)))))

\* The method that set editorView, 0 when none did.
LocatedBy(p) ==
    IF Method1(p).truthy THEN 1
    ELSE IF Method2(p, NoObj).truthy THEN 2
    ELSE IF Method3(p, NoObj).truthy THEN 3
    ELSE IF Method4(p, NoObj).truthy THEN 4
    ELSE IF Method5(p, NoObj).truthy THEN 5
    ELSE 0

\* A variant that inserts at from and removes nothing.
ReplaceRange_Insert(d, from, to, insert) ==
    SubSeq(d, 1, from) \o insert \o SubSeq(d, from + 1, Len(d))

\* changes: {from, to, insert} applied to the document.
ReplaceRange(d, from, to, insert) ==
    SubSeq(d, 1, from) \o insert \o SubSeq(d, to + 1, Len(d))

Thrown(d) ==
    [ok |-> FALSE, method |-> "none", doc |-> d, inputs |-> 0,
     updates |-> <<>>]

\* The whole page function: its result, or the exception it throws.
InjectEval(p, d, newContent) ==
    IF ~p.editorEl THEN Thrown(d)
    ELSE LET editorView == Locate(p) IN
        IF ~editorView.truthy \/ ~editorView.state
           \/ editorView.dispatch = "none"
        THEN IF p.content = "editable"
             THEN [ok |-> TRUE, method |-> "contenteditable",
                   doc |-> newContent, inputs |-> 1, updates |-> <<>>]
             ELSE Thrown(d)
        ELSE IF ~editorView.doc THEN Thrown(d)
        ELSE IF editorView.dispatch # "fn" THEN Thrown(d)
        ELSE LET changes == [from |-> 0, to |-> Len(d), insert |-> newContent]
             IN [ok |-> TRUE, method |-> "api",
                 doc |-> ReplaceRange(d, changes.from, changes.to,
                                      changes.insert),
                 inputs |-> 0, updates |-> <<changes>>]

(***************************************************************************)
(* The page function of the second page.evaluate (main.ts:321-369).        *)
(***************************************************************************)
\* A variant of the selector loop that goes on after a click.
RECURSIVE SelectorPass_NoReturn(_, _)
SelectorPass_NoReturn(p, i) ==
    IF i > NumSelectors THEN <<>>
    ELSE IF p.sel[i] = "html" THEN <<i>> \o SelectorPass_NoReturn(p, i + 1)
    ELSE SelectorPass_NoReturn(p, i + 1)

\* The selector loop from selector i on, as the selectors whose element
\* it clicks: the first selector whose element is an HTMLElement is
\* clicked and the function returns; null, a non-HTML element and a
\* caught exception go on.
RECURSIVE SelectorPass(_, _)
SelectorPass(p, i) ==
    IF i > NumSelectors THEN <<>>
    ELSE IF p.sel[i] = "html" THEN <<i>>
    ELSE SelectorPass(p, i + 1)

\* The button the text scan clicks, numbered after the selectors.
ScanButton == NumSelectors + 1

\* clicks is what the function clicked, in order.
TriggerEval(p) ==
    LET s == SelectorPass(p, 1) IN
    IF s # <<>> THEN [success |-> TRUE, via |-> "selector", clicks |-> s]
    ELSE IF p.scan
         THEN [success |-> TRUE, via |-> "scan", clicks |-> <<ScanButton>>]
    ELSE [success |-> FALSE, via |-> "none", clicks |-> <<>>]

\* A variant that leaves out the else branch.
AfterTrigger_NoFallback(evaluated) == "done"

\* if (evaluated.success) ... else keyboard shortcut (main.ts:371-378).
AfterTrigger(evaluated) == IF evaluated.success THEN "done" ELSE "click"

(***************************************************************************)
(* The watcher callback and the debounce timer (main.ts:535-583).          *)
(***************************************************************************)
\* A variant that sets a timeout without clearing the armed one.
ArmTimer_NoClear(armed) == armed + 1

\* if (updateTimeout) clearTimeout(updateTimeout); updateTimeout = setTimeout
ArmTimer(armed) == 1

\* Variants: no modification-time check at all; a check that takes only
\* a newer modification time for a change.
MtimeChanged_Always(mtimeMs, last) == TRUE
MtimeChanged_Newer(mtimeMs, last) == mtimeMs > last

\* stats.mtimeMs === lastMtime returns; anything else is a change.
MtimeChanged(mtimeMs, last) == mtimeMs # last

\* A variant in which the error leaves the callback unhandled.
CatchTimerError_Rethrow(pr) == "crashed"

\* catch (error) { slog.error(...) } of the timer callback.
CatchTimerError(pr) == pr

Absent == [exists |-> FALSE, mtime |-> 0, content |-> <<>>]

\* A variant without the existence check.
FileExists_Always(f) == TRUE

\* fs.existsSync(filePath) (main.ts:554).
FileExists(f) == f.exists

InFlight(s) == s.pc \notin {"done", "failed"}
InFlightIds == {i \in 1..Len(syncs) : InFlight(syncs[i])}

NewSync(c, over, burst, del) ==
    [content |-> c, pc |-> "wait", method |-> "none", via |-> "none",
     clicked |-> FALSE, pressed |-> FALSE, inputs |-> 0, logged |-> FALSE,
     controls |-> <<>>, updates |-> <<>>,
     overlap |-> over, burst |-> burst, afterDelete |-> del]

(***************************************************************************)
(* The file system and the page, as the environment changes them.          *)
(***************************************************************************)
\* Another process writes, or renames a file over, the watched path.
FileWrite(m) ==
    /\ ops < MaxOps
    /\ file' = [exists |-> TRUE, mtime |-> m, content |-> Written(ops + 1)]
    /\ events' = events + 1
    /\ ops' = ops + 1
    /\ UNCHANGED <<updateTimeout, lastMtime, contents, syncs, page, doc, proc,
                   watcher, injectOrder, burstEvents, firesSinceEvent,
                   winDeleted, fireOutcome, life, unread>>

FileDelete ==
    /\ ops < MaxOps
    /\ file.exists
    /\ file' = Absent
    /\ events' = events + 1
    /\ winDeleted' = TRUE
    /\ ops' = ops + 1
    /\ UNCHANGED <<updateTimeout, lastMtime, contents, syncs, page, doc, proc,
                   watcher, injectOrder, burstEvents, firesSinceEvent,
                   fireOutcome, life, unread>>

\* The file's attributes change (a chmod, or a second notification of one
\* save): an event for the file, its content and modification time as before.
FileTouch ==
    /\ ops < MaxOps
    /\ file.exists
    /\ events' = events + 1
    /\ ops' = ops + 1
    /\ UNCHANGED <<file, updateTimeout, lastMtime, contents, syncs, page, doc,
                   proc, watcher, injectOrder, burstEvents, firesSinceEvent,
                   winDeleted, fireOutcome, life, unread>>

(***************************************************************************)
(* fs.watch callback (main.ts:538-582).                                    *)
(***************************************************************************)
\* An event for the watched file: the debounce timer is armed anew.
WatchEvent ==
    /\ proc = "running"
    /\ watcher = "active"
    /\ events > 0
    /\ events' = events - 1
    /\ updateTimeout' = ArmTimer(updateTimeout)
    /\ firesSinceEvent' = 0
    /\ burstEvents' = burstEvents + 1
    /\ UNCHANGED <<file, lastMtime, contents, syncs, page, doc, proc, watcher,
                   injectOrder, winDeleted, fireOutcome, ops, life, unread>>

\* Something else in the watched directory changes: filename is not
\* watchFilename and the callback returns at once.
WatchOtherFile(filename) ==
    /\ proc = "running"
    /\ watcher = "active"
    /\ ops < MaxOps
    /\ filename # watchFilename
    /\ ops' = ops + 1
    /\ UNCHANGED <<file, events, updateTimeout, lastMtime, contents, syncs,
                   page, doc, proc, watcher, injectOrder, burstEvents,
                   firesSinceEvent, winDeleted, fireOutcome, life, unread>>

(***************************************************************************)
(* The setTimeout callback up to its await (main.ts:551-576).              *)
(***************************************************************************)
TimerFire ==
    /\ proc = "running"
    /\ updateTimeout > 0
    /\ updateTimeout' = updateTimeout - 1
    /\ firesSinceEvent' = firesSinceEvent + 1
    /\ winDeleted' = FALSE
    /\ burstEvents' = 0
    /\ \/ /\ ~FileExists(file)
          /\ fireOutcome' = "missing"
          /\ UNCHANGED <<lastMtime, contents, syncs, proc, unread>>
       \/ /\ FileExists(file)
          /\ ~MtimeChanged(file.mtime, lastMtime)
          /\ fireOutcome' = "unchanged"
          /\ UNCHANGED <<lastMtime, contents, syncs, proc, unread>>
       \/ /\ FileExists(file)
          /\ MtimeChanged(file.mtime, lastMtime)
          /\ lastMtime' = file.mtime
          \* readFileSync throws: the file cannot be read
          /\ fireOutcome' = "readError"
          /\ proc' = CatchTimerError(proc)
          /\ unread' = file
          /\ UNCHANGED <<contents, syncs>>
       \/ /\ FileExists(file)
          /\ MtimeChanged(file.mtime, lastMtime)
          /\ lastMtime' = file.mtime
          /\ contents' = file.content
          /\ syncs' = Append(syncs,
                             NewSync(file.content, InFlightIds, burstEvents,
                                     winDeleted))
          /\ fireOutcome' = "changed"
          /\ unread' = Absent
          /\ UNCHANGED proc
    /\ UNCHANGED <<file, events, page, doc, watcher, injectOrder, ops, life>>

(***************************************************************************)
(* updateREPLContext (main.ts:163-383), one action per await, and the      *)
(* timer callback's catch around it (main.ts:578-580).                     *)
(***************************************************************************)
Failed(s) == [s EXCEPT !.pc = "failed", !.logged = TRUE]

StepVars == <<file, events, updateTimeout, lastMtime, contents, page,
              watcher, burstEvents, firesSinceEvent, winDeleted, fireOutcome,
              ops, life, unread>>

\* A variant in which the time-out of the wait is not thrown.
AfterWait_Ignore(found) == "inject"

\* waitForSelector returns when the node is found and throws on time-out.
AfterWait(found) == IF found THEN "inject" ELSE "failed"

\* await page.waitForSelector("#code .cm-content[contenteditable='true']")
WaitForSelector(i) ==
    /\ proc = "running"
    /\ syncs[i].pc = "wait"
    /\ IF AfterWait(page.content = "editable") # "failed"
       THEN /\ syncs' = [syncs EXCEPT
                            ![i].pc = AfterWait(page.content = "editable")]
            /\ UNCHANGED proc
       ELSE /\ syncs' = [syncs EXCEPT ![i] = Failed(@)]
            /\ proc' = CatchTimerError(proc)
    /\ UNCHANGED <<doc, injectOrder>>
    /\ UNCHANGED StepVars

\* const result = await page.evaluate(..., content)
Inject(i) ==
    /\ proc = "running"
    /\ syncs[i].pc = "inject"
    /\ LET result == InjectEval(page, doc, syncs[i].content) IN
       IF result.ok
       THEN /\ syncs' = [syncs EXCEPT ![i].pc = "settle",
                                      ![i].method = result.method,
                                      ![i].inputs = result.inputs,
                                      ![i].updates = result.updates]
            /\ doc' = result.doc
            /\ injectOrder' = Append(injectOrder, i)
            /\ UNCHANGED proc
       ELSE /\ syncs' = [syncs EXCEPT ![i] = Failed(@)]
            /\ proc' = CatchTimerError(proc)
            /\ UNCHANGED <<doc, injectOrder>>
    /\ UNCHANGED StepVars

\* await page.waitForTimeout(100)
Settle(i) ==
    /\ proc = "running"
    /\ syncs[i].pc = "settle"
    /\ syncs' = [syncs EXCEPT ![i].pc = "trigger"]
    /\ UNCHANGED <<doc, injectOrder, proc>>
    /\ UNCHANGED StepVars

\* const evaluated = await page.evaluate(...)
Trigger(i) ==
    /\ proc = "running"
    /\ syncs[i].pc = "trigger"
    /\ LET evaluated == TriggerEval(page) IN
       syncs' = [syncs EXCEPT ![i].pc = AfterTrigger(evaluated),
                              ![i].via = evaluated.via,
                              ![i].controls = evaluated.clicks]
    /\ UNCHANGED <<doc, injectOrder, proc>>
    /\ UNCHANGED StepVars

\* await page.click("#code .cm-content")
ClickContent(i) ==
    /\ proc = "running"
    /\ syncs[i].pc = "click"
    /\ IF page.content # "absent" /\ page.clickable
       THEN /\ syncs' = [syncs EXCEPT ![i].pc = "press", ![i].clicked = TRUE]
            /\ UNCHANGED proc
       ELSE /\ syncs' = [syncs EXCEPT ![i] = Failed([@ EXCEPT !.clicked = TRUE])]
            /\ proc' = CatchTimerError(proc)
    /\ UNCHANGED <<doc, injectOrder>>
    /\ UNCHANGED StepVars

\* await page.keyboard.press("Control+Enter")
PressKey(i) ==
    /\ proc = "running"
    /\ syncs[i].pc = "press"
    /\ syncs' = [syncs EXCEPT ![i].pc = "done", ![i].pressed = TRUE,
                              ![i].via = "keyboard"]
    /\ UNCHANGED <<doc, injectOrder, proc>>
    /\ UNCHANGED StepVars

(***************************************************************************)
(* The command line (main.ts:390-451).  usage() prints and ends the        *)
(* process, so that a call of it ends parseArgs with no result.            *)
(***************************************************************************)
ArgTokens == {"", "-h", "--help", "-v", "-vv", "-vx", watchFilename, "other"}
ArgLists == UNION {[1..n -> ArgTokens] : n \in 0..MaxArgs}

\* arg.startsWith("-v")
StartsWithV(arg) == arg \in {"-v", "-vv", "-vx"}

\* arg.match(/^-v+$/)?.[0].length ?? 0: the length of the whole match.
vCount(arg) == IF arg = "-v" THEN Len(<<"-", "v">>)
               ELSE IF arg = "-vv" THEN Len(<<"-", "v", "v">>)
               ELSE 0

Parsed(f, v) == [usage |-> "none", file |-> f, verbosity |-> v]
Usage(why) == [usage |-> why, file |-> "", verbosity |-> 0]

\* The loop of parseArgs from index i on, and the check after it; file is
\* "" while unset, verbosity is what is taken off slog.LevelInfo.
RECURSIVE parseArgs(_, _, _, _)
parseArgs(args, i, f, v) ==
    IF i > Len(args)
    THEN IF f = "" THEN Usage("nofile") ELSE Parsed(f, v)
    ELSE LET arg == args[i] IN
         IF arg = "" THEN parseArgs(args, i + 1, f, v)
         ELSE IF arg = "-h" \/ arg = "--help" THEN Usage("help")
         ELSE IF StartsWithV(arg) THEN parseArgs(args, i + 1, f, vCount(arg))
         ELSE IF f = "" THEN parseArgs(args, i + 1, arg, v)
         ELSE Usage("extra")

(***************************************************************************)
(* Startup and shutdown (main.ts:456-592).  life.phase is the place of     *)
(* the main function: the synchronous parts "parse" and "verify", then     *)
(* the await it is suspended at.  life.closing counts the calls of         *)
(* cleanup suspended at await browser.close(); life.inFlight is the        *)
(* browser call that was under way when the first of them began.           *)
(***************************************************************************)
FileKinds == {"missing", "dir", "link", "file"}
Signals == {"SIGINT", "SIGTERM"}
AwaitPhases == {"launch", "goto", "waitEditor", "hydrate", "load",
                "loadFailed", "watching"}

\* A variant that takes whatever exists for a file.
IsFile_Any(kind) == TRUE

\* fs.existsSync follows links; fs.lstatSync(filePath).isFile() does not.
ExistsSync(kind) == kind # "missing"
IsFile(kind) == kind = "file"

\* process.exit(code)
Exit(l, code) ==
    [l EXCEPT !.phase = "exited", !.status = code, !.log = Append(@, "exit")]

\* A variant of cleanup that leaves the watcher alone.
CloseWatcher_Skip(w) == w

\* if (watcher) watcher.close()
CloseWatcher(w) == IF w # "null" THEN "closed" ELSE w

\* The browser call the main function is suspended at.
CurrentCall ==
    IF life.phase = "load" /\ syncs # <<>> THEN syncs[1].pc ELSE life.phase

\* cleanup() up to its await: the watcher is closed when there is one;
\* with a browser the call suspends at browser.close(), without one it
\* goes on to process.exit(0).
Cleanup(l) ==
    /\ watcher' = CloseWatcher(watcher)
    /\ LET l1 == [l EXCEPT !.log = IF watcher' = "closed"
                                    THEN Append(@, "watcherClose") ELSE @]
       IN IF l1.browser # "null"
          THEN /\ life' = [l1 EXCEPT !.closing = @ + 1,
                                     !.inFlight = IF l.closing = 0
                                                  THEN CurrentCall ELSE @]
               /\ UNCHANGED proc
          ELSE /\ life' = Exit(l1, cleanupExitCode)
               /\ proc' = "exited"

LifeFrame == <<file, events, updateTimeout, injectOrder, burstEvents,
               firesSinceEvent, winDeleted, fireOutcome, ops, unread, page>>

\* const args = process.argv.slice(2); parseArgs(args)
ParseArgs ==
    /\ proc = "running"
    /\ life.phase = "parse"
    /\ LET r == parseArgs(life.args, 1, "", 0) IN
       IF r.usage # "none"
       THEN /\ life' = Exit([life EXCEPT !.usage = r.usage], usageExitCode)
            /\ proc' = "exited"
       ELSE /\ life' = [life EXCEPT !.phase = "verify", !.file = r.file,
                                    !.verbosity = r.verbosity]
            /\ UNCHANGED proc
    /\ UNCHANGED <<lastMtime, contents, syncs, doc, watcher>>
    /\ UNCHANGED LifeFrame

\* The two checks of the path and the first read (main.ts:481-492).
VerifyFile ==
    /\ proc = "running"
    /\ life.phase = "verify"
    /\ IF ~ExistsSync(life.kind) \/ ~IsFile(life.kind)
       THEN /\ life' = Exit(life, badPathExitCode)
            /\ proc' = "exited"
            /\ UNCHANGED contents
       ELSE /\ life' = [life EXCEPT !.phase = "launch"]
            /\ contents' = file.content
            /\ UNCHANGED proc
    /\ UNCHANGED <<lastMtime, syncs, doc, watcher>>
    /\ UNCHANGED LifeFrame

\* The main function may go on from a browser call when no shutdown is
\* under way, or when the call was under way already as it began.
MayReturn(call) == life.closing = 0 \/ life.inFlight = call

\* browser = await chromium.launch(...); page = await browser.newPage()
Launch ==
    /\ proc = "running"
    /\ life.phase = "launch"
    /\ life' = [life EXCEPT !.phase = "goto", !.browser = "open"]
    /\ UNCHANGED <<lastMtime, contents, syncs, doc, proc, watcher>>
    /\ UNCHANGED LifeFrame

\* await page.goto("https://strudel.cc")
Goto ==
    /\ proc = "running"
    /\ life.phase = "goto"
    /\ MayReturn("goto")
    /\ life' = [life EXCEPT !.phase = "waitEditor"]
    /\ UNCHANGED <<lastMtime, contents, syncs, doc, proc, watcher>>
    /\ UNCHANGED LifeFrame

\* await page.waitForSelector("#code .cm-content[...]", { timeout: 30000 })
WaitEditor ==
    /\ proc = "running"
    /\ life.phase = "waitEditor"
    /\ MayReturn("waitEditor")
    /\ life' = [life EXCEPT !.phase = "hydrate"]
    /\ UNCHANGED <<lastMtime, contents, syncs, doc, proc, watcher>>
    /\ UNCHANGED LifeFrame

\* await page.waitForTimeout(2000), then the call of updateREPLContext
\* with the initial contents.
Hydrate ==
    /\ proc = "running"
    /\ life.phase = "hydrate"
    /\ MayReturn("hydrate")
    /\ life' = [life EXCEPT !.phase = "load"]
    /\ syncs' = <<NewSync(contents, {}, 0, FALSE)>>
    /\ UNCHANGED <<lastMtime, contents, doc, proc, watcher>>
    /\ UNCHANGED LifeFrame

\* Another process writes the file while the main function is between
\* its read of the file (main.ts:492) and fs.watch (main.ts:535): there is
\* no watcher yet to be notified.
EditBeforeWatch(m) ==
    /\ proc = "running"
    /\ life.phase \in {"launch", "goto", "waitEditor", "hydrate", "load"}
    /\ ops < MaxOps
    /\ file' = [exists |-> TRUE, mtime |-> m, content |-> Written(ops + 1)]
    /\ ops' = ops + 1
    /\ UNCHANGED <<events, updateTimeout, lastMtime, contents, syncs, page,
                   doc, proc, watcher, injectOrder, burstEvents,
                   firesSinceEvent, winDeleted, fireOutcome, life, unread>>

\* A browser call of the initial load returns.
LoadCall(i) ==
    /\ life.phase = "load"
    /\ MayReturn(syncs[i].pc)

\* A browser call of the initial load made on, or overtaken by, the close
\* of the browser is rejected.
BrowserGone(i) ==
    /\ proc = "running"
    /\ life.phase = "load"
    /\ life.closing > 0
    /\ InFlight(syncs[i])
    /\ syncs' = [syncs EXCEPT ![i] = Failed(@)]
    /\ UNCHANGED <<doc, injectOrder, proc>>
    /\ UNCHANGED StepVars

\* The initial load returned: the watcher is installed (main.ts:526-588).
LoadDone ==
    /\ proc = "running"
    /\ life.phase = "load"
    /\ syncs # <<>>
    /\ syncs[1].pc = "done"
    /\ lastMtime' = file.mtime
    /\ watcher' = "active"
    /\ life' = [life EXCEPT !.phase = "watching"]
    /\ UNCHANGED <<contents, syncs, doc, proc>>
    /\ UNCHANGED LifeFrame

\* The initial load threw: catch { slog.error; await cleanup();
\* process.exit(1) } (main.ts:517-522).  cleanup ends in process.exit, so
\* the statement after the await is never come to.
LoadFailed ==
    /\ proc = "running"
    /\ life.phase = "load"
    /\ syncs # <<>>
    /\ syncs[1].pc = "failed"
    /\ Cleanup([life EXCEPT !.phase = "loadFailed", !.fatal = "load"])
    /\ UNCHANGED <<lastMtime, contents, syncs, doc>>
    /\ UNCHANGED LifeFrame

\* The main function is suspended at an await that has not returned.
Suspended ==
    /\ life.phase \in AwaitPhases
    /\ CurrentCall \notin {"done", "failed"}

\* process.on("SIGINT", cleanup).on("SIGTERM", cleanup): a signal is
\* handled when the main function is suspended at an await.
Signal(sig) ==
    /\ proc = "running"
    /\ Suspended
    /\ life.signals < MaxSignals
    /\ Cleanup([life EXCEPT !.signals = @ + 1])
    /\ UNCHANGED <<lastMtime, contents, syncs, doc>>
    /\ UNCHANGED LifeFrame

\* watcher.on("error", ...): slog.error, cleanup() (main.ts:585-588).
WatcherError ==
    /\ proc = "running"
    /\ watcher = "active"
    /\ Cleanup([life EXCEPT !.fatal = "watcher"])
    /\ UNCHANGED <<lastMtime, contents, syncs, doc>>
    /\ UNCHANGED LifeFrame

\* await browser.close() returns to a suspended cleanup, which goes on to
\* process.exit(0).
BrowserClosed ==
    /\ proc = "running"
    /\ life.closing > 0
    /\ life' = Exit([life EXCEPT !.browser = "closed",
                                 !.log = Append(@, "browserClose")],
                    cleanupExitCode)
    /\ proc' = "exited"
    /\ UNCHANGED <<lastMtime, contents, syncs, doc, watcher>>
    /\ UNCHANGED LifeFrame

\* The main function with the file verified, the browser open and the
\* watcher installed.
Serving ==
    [args |-> <<watchFilename>>, kind |-> "file", phase |-> "watching",
     file |-> watchFilename, verbosity |-> 0, usage |-> "none",
     browser |-> "open", status |-> 0, closing |-> 0, inFlight |-> "none",
     signals |-> 0, fatal |-> "none", log |-> <<>>]

(***************************************************************************)
(* The running server: the state once the initial content is loaded and    *)
(* the watcher is installed (main.ts:492-592).  The page is what the host  *)
(* application shows from then on: it may have re-rendered since the       *)
(* initial load, so that it may lack the content node, the editor view or  *)
(* the evaluate button.                                                    *)
(***************************************************************************)
Init ==
    /\ file = [exists |-> TRUE, mtime |-> 1, content |-> InitialContent]
    /\ events = 0
    /\ updateTimeout = 0
    /\ lastMtime = file.mtime
    /\ contents = file.content
    /\ syncs = <<>>
    /\ page \in MainPages
    /\ doc = contents
    /\ proc = "running"
    /\ watcher = "active"
    /\ injectOrder = <<>>
    /\ burstEvents = 0
    /\ firesSinceEvent = 0
    /\ winDeleted = FALSE
    /\ fireOutcome = "none"
    /\ ops = 0
    /\ life = Serving
    /\ unread = Absent

Next ==
    \/ \E m \in MTimes : FileWrite(m)
    \/ FileDelete
    \/ FileTouch
    \/ \E f \in FileNames : WatchOtherFile(f)
    \/ WatchEvent
    \/ TimerFire
    \/ \E i \in 1..Len(syncs) : WaitForSelector(i)
    \/ \E i \in 1..Len(syncs) : Inject(i)
    \/ \E i \in 1..Len(syncs) : Settle(i)
    \/ \E i \in 1..Len(syncs) : Trigger(i)
    \/ \E i \in 1..Len(syncs) : ClickContent(i)
    \/ \E i \in 1..Len(syncs) : PressKey(i)

Spec == Init /\ [][Next]_vars

(***************************************************************************)
(* One execution of updateREPLContext on every kind of page: the change    *)
(* handler has just called it with new content.                            *)
(***************************************************************************)
InitPage ==
    /\ file = [exists |-> TRUE, mtime |-> 2, content |-> Written(2)]
    /\ events = 0
    /\ updateTimeout = 0
    /\ lastMtime = file.mtime
    /\ contents = file.content
    /\ syncs = <<NewSync(contents, {}, 1, FALSE)>>
    /\ page \in AllPages
    /\ doc = InitialContent
    /\ proc = "running"
    /\ watcher = "active"
    /\ injectOrder = <<>>
    /\ burstEvents = 0
    /\ firesSinceEvent = 1
    /\ winDeleted = FALSE
    /\ fireOutcome = "changed"
    /\ ops = 1
    /\ life = Serving
    /\ unread = Absent

NextPage ==
    \/ \E i \in 1..Len(syncs) : WaitForSelector(i)
    \/ \E i \in 1..Len(syncs) : Inject(i)
    \/ \E i \in 1..Len(syncs) : Settle(i)
    \/ \E i \in 1..Len(syncs) : Trigger(i)
    \/ \E i \in 1..Len(syncs) : ClickContent(i)
    \/ \E i \in 1..Len(syncs) : PressKey(i)

SpecPage == InitPage /\ [][NextPage]_vars

(***************************************************************************)
(* The process from its start: any command line, any kind of path.         *)
(***************************************************************************)
InitLife ==
    /\ life \in {[Serving EXCEPT !.args = a, !.kind = k, !.phase = "parse",
                                 !.file = "", !.browser = "null"] :
                    a \in ArgLists, k \in FileKinds}
    /\ file = IF life.kind = "file"
              THEN [exists |-> TRUE, mtime |-> 1, content |-> InitialContent]
              ELSE Absent
    /\ events = 0
    /\ updateTimeout = 0
    /\ lastMtime = 0
    /\ contents = <<>>
    /\ syncs = <<>>
    /\ page \in MainPages
    /\ doc = <<>>
    /\ proc = "running"
    /\ watcher = "null"
    /\ injectOrder = <<>>
    /\ burstEvents = 0
    /\ firesSinceEvent = 0
    /\ winDeleted = FALSE
    /\ fireOutcome = "none"
    /\ ops = 0
    /\ unread = Absent

NextLife ==
    \/ ParseArgs
    \/ VerifyFile
    \/ Launch
    \/ Goto
    \/ WaitEditor
    \/ Hydrate
    \/ \E m \in MTimes : EditBeforeWatch(m)
    \/ \E i \in 1..Len(syncs) : LoadCall(i) /\ WaitForSelector(i)
    \/ \E i \in 1..Len(syncs) : LoadCall(i) /\ Inject(i)
    \/ \E i \in 1..Len(syncs) : LoadCall(i) /\ Settle(i)
    \/ \E i \in 1..Len(syncs) : LoadCall(i) /\ Trigger(i)
    \/ \E i \in 1..Len(syncs) : LoadCall(i) /\ ClickContent(i)
    \/ \E i \in 1..Len(syncs) : LoadCall(i) /\ PressKey(i)
    \/ \E i \in 1..Len(syncs) : BrowserGone(i)
    \/ LoadDone
    \/ LoadFailed
    \/ \E sig \in Signals : Signal(sig)
    \/ WatcherError
    \/ BrowserClosed

SpecLife == InitLife /\ [][NextLife]_vars

(***************************************************************************)
(* The watching server up to its shutdown: writes of the file, the         *)
(* watcher callback and the timer, and a signal or an error of the         *)
(* watcher with cleanup after it.  The syncs the timer starts are left at  *)
(* their first await: what they go on to do is in Spec.                    *)
(***************************************************************************)
InitStop ==
    /\ file = [exists |-> TRUE, mtime |-> 1, content |-> InitialContent]
    /\ events = 0
    /\ updateTimeout = 0
    /\ lastMtime = file.mtime
    /\ contents = file.content
    /\ syncs = <<>>
    /\ page = GoodPage
    /\ doc = contents
    /\ proc = "running"
    /\ watcher = "active"
    /\ injectOrder = <<>>
    /\ burstEvents = 0
    /\ firesSinceEvent = 0
    /\ winDeleted = FALSE
    /\ fireOutcome = "none"
    /\ ops = 0
    /\ life = Serving
    /\ unread = Absent

NextStop ==
    \/ \E m \in MTimes : FileWrite(m)
    \/ WatchEvent
    \/ TimerFire
    \/ \E sig \in Signals : Signal(sig)
    \/ WatcherError
    \/ BrowserClosed

SpecStop == InitStop /\ [][NextStop]_vars

(***************************************************************************)
(* Injection over what the editor showed before: the editor shows any of   *)
(* a few texts, the file holds any of them, the change handler has just    *)
(* called updateREPLContext, and the file is saved again, one save after   *)
(* the other, with the same text and a new modification time.              *)
(***************************************************************************)
Texts == {<<>>, <<"z">>, <<"x", "x">>, <<"z", "x", "z">>}
InjectPages == {GoodPage, [BarePage EXCEPT !.m1 = View]}

\* The file is saved with the text it has, when the sync of the save
\* before is over: a new modification time only.
FileResave(m) ==
    /\ ops < MaxOps
    /\ file.exists
    /\ InFlightIds = {}
    /\ events = 0
    /\ updateTimeout = 0
    /\ file' = [file EXCEPT !.mtime = m]
    /\ events' = events + 1
    /\ ops' = ops + 1
    /\ UNCHANGED <<updateTimeout, lastMtime, contents, syncs, page, doc, proc,
                   watcher, injectOrder, burstEvents, firesSinceEvent,
                   winDeleted, fireOutcome, life, unread>>

InitInject ==
    /\ file \in {[exists |-> TRUE, mtime |-> 1, content |-> c] : c \in Texts}
    /\ events = 0
    /\ updateTimeout = 0
    /\ lastMtime = file.mtime
    /\ contents = file.content
    /\ syncs = <<NewSync(contents, {}, 1, FALSE)>>
    /\ page \in InjectPages
    /\ doc \in Texts
    /\ proc = "running"
    /\ watcher = "active"
    /\ injectOrder = <<>>
    /\ burstEvents = 0
    /\ firesSinceEvent = 1
    /\ winDeleted = FALSE
    /\ fireOutcome = "changed"
    /\ ops = 0
    /\ life = Serving
    /\ unread = Absent

NextInject ==
    \/ \E m \in MTimes : FileResave(m)
    \/ WatchEvent
    \/ TimerFire
    \/ \E i \in 1..Len(syncs) : WaitForSelector(i)
    \/ \E i \in 1..Len(syncs) : Inject(i)
    \/ \E i \in 1..Len(syncs) : Settle(i)
    \/ \E i \in 1..Len(syncs) : Trigger(i)
    \/ \E i \in 1..Len(syncs) : ClickContent(i)
    \/ \E i \in 1..Len(syncs) : PressKey(i)

SpecInject == InitInject /\ [][NextInject]_vars

(***************************************************************************)
(* Vocabulary of the properties.                                           *)
(***************************************************************************)
Ids == 1..Len(syncs)

\* This step is a run of the timer callback.
Fired == firesSinceEvent' = firesSinceEvent + 1

\* This step started exactly one sync, carrying the file's present content.
StartedOneSync ==
    /\ Len(syncs') = Len(syncs) + 1
    /\ syncs'[Len(syncs')].content = file.content
    /\ syncs'[Len(syncs')].pc = "wait"
    /\ \A i \in Ids : syncs'[i] = syncs[i]

\* Strategy by strategy: would it, tried alone, give an editor view that
\* has the transactional update primitive?
Reach1(p) == IsEditorView(p.m1)
Reach2(p) == p.content # "absent" /\ IsEditorView(p.m2)
Reach3(p) == IsEditorView(p.m3)
Reach4(p) == IsEditorView(FiberWalk(p.m4, 0))
Reach5(p) == IsEditorView(Search(p.m5, 0))
Reachable(p) ==
    p.editorEl /\ (Reach1(p) \/ Reach2(p) \/ Reach3(p) \/ Reach4(p) \/ Reach5(p))

\* No strategy comes up with an object that passes the code's own check
\* (state and dispatch), be it because there is no editor element to ask.
NoHandleLocated(p) ==
    \/ ~p.editorEl
    \/ LET editorView == Locate(p) IN
       ~editorView.truthy \/ ~editorView.state \/ editorView.dispatch = "none"

\* The sync's injection returned a result (it did not throw).
Injected(s) == s.method # "none"
Ended(s) == s.pc \in {"done", "failed"}

(***************************************************************************)
(* C1: at most one sync attempt is in flight at any time; a timer that     *)
(* fires while a sync is awaiting a browser call starts no second one.     *)
(***************************************************************************)
C1_OneSyncInFlight == Cardinality(InFlightIds) <= 1

(***************************************************************************)
(* C2: changes that become ready while a sync is in flight are coalesced:  *)
(* when two changes A, then B, become ready during the same sync Z, A is   *)
(* never injected (and only B is synced, once, after Z).                   *)
(***************************************************************************)
C2_Coalesced ==
    \A a \in Ids, b \in Ids :
        (a < b /\ syncs[a].overlap \cap syncs[b].overlap # {})
            => ~Injected(syncs[a])

(***************************************************************************)
(* C3: content reaches the page in the order it was read: no sync injects  *)
(* after a sync of a later read has injected, and once every sync has      *)
(* completed the document is the content read last.                        *)
(***************************************************************************)
C3_InReadOrder ==
    /\ \A x \in 1..Len(injectOrder), y \in 1..Len(injectOrder) :
           x < y => injectOrder[x] < injectOrder[y]
    /\ (Ids # {} /\ \A i \in Ids : syncs[i].pc = "done") => doc = contents

(***************************************************************************)
(* C4, as claimed: every burst of events (each arriving before the timer   *)
(* armed by the one before has fired) produces exactly one change: when    *)
(* the timer fires, the file is read and one sync starts with the file's   *)
(* content (the file being readable).                                      *)
(***************************************************************************)
C4_BurstAlwaysOneChange ==
    [][(Fired /\ fireOutcome' # "readError") => StartedOneSync]_vars

(***************************************************************************)
(* C4, amended: a burst of events leads to at most one run of the timer    *)
(* callback, hence at most one change; the change is produced exactly      *)
(* when, at that moment, the file exists, its modification time differs    *)
(* from lastMtime and the read succeeds, and it carries the file's content *)
(* of that moment, the last write; otherwise no sync starts.               *)
(***************************************************************************)
C4_BurstAtMostOneChange ==
    [][/\ firesSinceEvent' <= 1
       /\ updateTimeout' <= 1
       /\ Fired =>
            IF file.exists /\ file.mtime # lastMtime
               /\ fireOutcome' # "readError"
            THEN StartedOneSync /\ contents' = file.content
            ELSE syncs' = syncs /\ contents' = contents]_vars

\* A sync was started after a burst of several events and carries the
\* text of the last write.
C4_Witness ==
    \E i \in Ids :
        /\ syncs[i].burst >= 2
        /\ ops >= 2
        /\ syncs[i].content = Written(ops)

(***************************************************************************)
(* C5: when the timer fires and the file's modification time equals        *)
(* lastMtime, nothing is produced: the callback returns before the read,   *)
(* contents and lastMtime stay as they are and no sync starts.             *)
(***************************************************************************)
C5_SameMtimeNoChange ==
    [][(Fired /\ file.exists /\ file.mtime = lastMtime) =>
          /\ fireOutcome' = "unchanged"
          /\ contents' = contents
          /\ lastMtime' = lastMtime
          /\ syncs' = syncs
          /\ doc' = doc]_vars

\* The timer fired on a file that was written again (new text) under the
\* modification time already recorded.
C5_Witness ==
    /\ fireOutcome = "unchanged"
    /\ file.exists
    /\ file.content # contents
    /\ file.mtime = lastMtime

(***************************************************************************)
(* C6, as claimed: the file is deleted and rewritten, all events within    *)
(* one debounce window: when the timer fires (the file being readable)     *)
(* exactly one sync starts, with the final content, and the process and    *)
(* the watcher live on.                                                    *)
(***************************************************************************)
C6_DeleteRewriteOneSync ==
    [][(Fired /\ winDeleted /\ burstEvents >= 2 /\ file.exists
        /\ fireOutcome' # "readError")
          => (StartedOneSync /\ proc' = "running" /\ watcher' = "active")]_vars

(***************************************************************************)
(* C6, amended: the file is deleted and rewritten within one debounce      *)
(* window: the process and the watcher live on, at most one sync starts,   *)
(* and exactly one, carrying the final content, when the rewritten file's  *)
(* modification time differs from lastMtime (and the file can be read); a  *)
(* rewrite under the recorded modification time starts none.  A sync so    *)
(* started injects nothing but that content.                               *)
(***************************************************************************)
C6_DeleteRewrite ==
    [][/\ (Fired /\ winDeleted /\ burstEvents >= 2 /\ file.exists
           /\ fireOutcome' # "readError")
            => /\ proc' = "running"
               /\ watcher' = "active"
               /\ IF file.mtime # lastMtime
                  THEN StartedOneSync /\ syncs'[Len(syncs')].afterDelete
                  ELSE syncs' = syncs
       /\ \A i \in Ids :
            (syncs[i].afterDelete /\ ~Injected(syncs[i]) /\ Injected(syncs'[i]))
                => doc' = syncs[i].content]_vars

\* A sync started after a delete and a rewrite in one window has injected
\* the rewritten text.
C6_Witness ==
    \E i \in Ids :
        /\ syncs[i].afterDelete
        /\ syncs[i].burst >= 2
        /\ Injected(syncs[i])
        /\ file.exists
        /\ syncs[i].content = file.content
        /\ doc = file.content
        /\ proc = "running"

(***************************************************************************)
(* C7: whenever an editor view with the transactional update primitive is  *)
(* reachable by at least one of the five strategies, the injection is not  *)
(* made through the contenteditable fallback.                              *)
(***************************************************************************)
C7_ApiWhenReachable ==
    Reachable(page) => \A i \in Ids : syncs[i].method # "contenteditable"

(***************************************************************************)
(* C8: when no strategy locates an editor handle and the content node is   *)
(* present and editable, the injection does not throw: it sets the text,   *)
(* dispatches one input event and reports 'contenteditable'.               *)
(***************************************************************************)
C8_DegradedNotFailed ==
    (NoHandleLocated(page) /\ page.content = "editable") =>
        \A i \in Ids :
            /\ ~(syncs[i].pc = "failed" /\ ~Injected(syncs[i]))
            /\ syncs[i].pc \notin {"wait", "inject"} =>
                 /\ syncs[i].method = "contenteditable"
                 /\ syncs[i].inputs = 1

(***************************************************************************)
(* C9: in a sync whose injection succeeded, when neither the selector pass *)
(* nor the button scan clicked a control, the keyboard fallback is tried:  *)
(* the click into the content node, then Control+Enter.  No sync ends with *)
(* a successful injection and neither a control click nor the fallback.    *)
(***************************************************************************)
C9_KeyboardFallback ==
    \A i \in Ids :
        LET s == syncs[i] IN
        /\ (Ended(s) /\ Injected(s)) =>
               (s.via \in {"selector", "scan"} \/ s.clicked)
        /\ (s.pc = "done" /\ ~TriggerEval(page).success) =>
               (s.clicked /\ s.pressed /\ s.via = "keyboard")
        /\ s.pressed => s.clicked

\* A sync ended after injecting, finding no control, and pressing the keys.
C9_Witness ==
    \E i \in Ids :
        /\ syncs[i].pc = "done"
        /\ Injected(syncs[i])
        /\ ~TriggerEval(page).success
        /\ syncs[i].pressed

(***************************************************************************)
(* C10: a failure in a step of a change-triggered sync (selector wait,     *)
(* injection, trigger) ends that sync only: it is logged, the process runs *)
(* on with its watcher, and the next real change starts a new sync.        *)
(***************************************************************************)
C10_FailureNotFatal ==
    [][/\ (\E i \in 1..Len(syncs') : syncs'[i].pc = "failed") =>
            /\ proc' = "running"
            /\ watcher' = "active"
            /\ \A i \in 1..Len(syncs') :
                   syncs'[i].pc = "failed" => syncs'[i].logged
       /\ (Fired /\ (\E i \in Ids : syncs[i].pc = "failed")
           /\ file.exists /\ file.mtime # lastMtime
           /\ fireOutcome' # "readError") => StartedOneSync]_vars

\* A sync failed, and a later change, arriving when that sync was over,
\* started a new sync.
C10_Witness ==
    \E i \in Ids, j \in Ids :
        /\ i < j
        /\ syncs[i].pc = "failed"
        /\ syncs[i].logged
        /\ i \notin syncs[j].overlap
        /\ proc = "running"

(***************************************************************************)
(* Vocabulary of startup and shutdown.                                     *)
(***************************************************************************)
\* The places of a step in the record of shutdown steps.
LogPos(step) == {i \in 1..Len(life.log) : life.log[i] = step}

\* What has happened of a shutdown happened in the order watcher stop,
\* browser close, exit.
OrderedShutdown ==
    /\ \A i \in LogPos("watcherClose"), j \in LogPos("browserClose") : i < j
    /\ \A i \in LogPos("browserClose"), j \in LogPos("exit") : i < j
    /\ \A i \in LogPos("watcherClose"), j \in LogPos("exit") : i < j

\* The process is over with no watcher left running and no browser left
\* open.
AllReleased ==
    /\ watcher # "active"
    /\ life.browser # "open"

(***************************************************************************)
(* C11: when the process ends because of a fatal error after the browser   *)
(* was launched (an error of the watcher, or a failed initial load), the   *)
(* watcher is stopped and the browser closed first, and the exit status    *)
(* is not zero.                                                            *)
(***************************************************************************)
C11_FatalExitNonZero ==
    (proc = "exited" /\ life.fatal # "none" /\ life.signals = 0) =>
        /\ AllReleased
        /\ OrderedShutdown
        /\ life.status # 0

(***************************************************************************)
(* C12: on SIGINT or SIGTERM the watcher is stopped, then the browser is   *)
(* closed, then the process exits: at the exit no watcher is left running  *)
(* and no browser open, whenever the signal came, and the steps that were  *)
(* taken were taken in that order.                                         *)
(***************************************************************************)
C12_ShutdownOrder ==
    (proc = "exited" /\ life.signals > 0) =>
        /\ AllReleased
        /\ OrderedShutdown

(***************************************************************************)
(* C13: with no file path, or with an argument too many, the program       *)
(* prints usage and exits with a status that is not zero; with -h or       *)
(* --help it prints usage and exits with status zero.                      *)
(***************************************************************************)
C13_UsageExitStatus ==
    proc = "exited" =>
        /\ life.usage \in {"nofile", "extra"} => life.status # 0
        /\ life.usage = "help" => life.status = 0

(***************************************************************************)
(* C14: when the path does not exist or is not a regular file, the process *)
(* exits with a status that is not zero, with no browser launched, no      *)
(* watcher installed and no sync attempted.                                *)
(***************************************************************************)
C14_BadPathExits ==
    (life.usage = "none" /\ life.kind # "file"
     /\ life.phase \notin {"parse", "verify"}) =>
        /\ proc = "exited"
        /\ life.status # 0
        /\ life.browser = "null"
        /\ watcher = "null"
        /\ syncs = <<>>
        /\ life.log = <<"exit">>

\* The path of a directory was given, and the process has exited.
C14_Witness ==
    /\ proc = "exited"
    /\ life.usage = "none"
    /\ life.kind = "dir"
    /\ life.file # ""
    /\ life.status = badPathExitCode
    /\ life.browser = "null"

(***************************************************************************)
(* Vocabulary of the locator's order and of the trigger.                   *)
(***************************************************************************)
\* The strategies that would each give a valid handle on page p.
ValidStrategies(p) ==
    (IF Reach1(p) THEN {1} ELSE {}) \cup (IF Reach2(p) THEN {2} ELSE {})
    \cup (IF Reach3(p) THEN {3} ELSE {}) \cup (IF Reach4(p) THEN {4} ELSE {})
    \cup (IF Reach5(p) THEN {5} ELSE {})

Lowest(S) == CHOOSE k \in S : \A j \in S : k <= j

\* The trigger's page function has run in sync s.
Triggered(s) == s.pc \in {"done", "click", "press"} \/ s.clicked

\* The selectors of page p that find an HTMLElement.
HtmlSelectors(p) == {k \in 1..NumSelectors : p.sel[k] = "html"}

(***************************************************************************)
(* C15: the locator tries its five strategies in order, the fiber walk     *)
(* within 30 steps and the recursive search within depth 3; when one or    *)
(* several strategies would give a valid handle, the injection uses the    *)
(* handle of the lowest-numbered of them.                                  *)
(***************************************************************************)
C15_LowestValidStrategy ==
    \A i \in Ids :
        (Injected(syncs[i]) /\ ValidStrategies(page) # {}) =>
            /\ syncs[i].method = "api"
            /\ LocatedBy(page) = Lowest(ValidStrategies(page))
            /\ LocatedBy(page) = 4 => page.m4.depth < FiberDepthCap
            /\ LocatedBy(page) = 5 => page.m5.depth <= SearchMaxDepth

(***************************************************************************)
(* C16, as claimed: lastMtime never takes a value smaller than one it      *)
(* held before.                                                            *)
(***************************************************************************)
C16_NeverDecreases == [][lastMtime' >= lastMtime]_vars

(***************************************************************************)
(* C16, amended: lastMtime changes only when the timer callback finds the  *)
(* file with a modification time different from it, and it then takes      *)
(* that time, older or newer; it does not decrease as long as the file's   *)
(* modification time is not below it.                                      *)
(***************************************************************************)
C16_TracksObservedMtime ==
    [][/\ lastMtime' # lastMtime =>
            (Fired /\ file.exists /\ lastMtime' = file.mtime)
       /\ (Fired /\ file.exists /\ file.mtime # lastMtime) =>
            lastMtime' = file.mtime
       /\ (file.exists => file.mtime >= lastMtime) =>
            lastMtime' >= lastMtime]_vars

\* The file was replaced by one with an older modification time, and the
\* timer callback recorded it: lastMtime went up and came down again.
C16_Witness ==
    /\ Len(syncs) >= 2
    /\ fireOutcome = "changed"
    /\ file.exists
    /\ lastMtime = file.mtime
    /\ \A m \in MTimes : lastMtime <= m

(***************************************************************************)
(* C17: a failure to read the file in the timer callback is recovered:     *)
(* the process and the watcher go on and that cycle starts no sync, and    *)
(* the next timer callback that finds the same version of the file         *)
(* readable starts a sync with its content.                                *)
(***************************************************************************)
C17_ReadErrorRetried ==
    [][/\ (Fired /\ fireOutcome' = "readError") =>
            (proc' = "running" /\ watcher' = "active" /\ syncs' = syncs
             /\ doc' = doc)
       /\ (Fired /\ unread # Absent /\ file = unread
           /\ fireOutcome' # "readError") =>
            (StartedOneSync /\ contents' = file.content)]_vars

(***************************************************************************)
(* C18: a timer callback that finds the file missing changes nothing:      *)
(* lastMtime and contents stay, no sync starts, no error is raised, the    *)
(* watcher goes on; the next event for the file arms the timer again, and  *)
(* the callback after it takes a changed file for a change.                *)
(***************************************************************************)
C18_MissingFileNoChange ==
    [][/\ (Fired /\ ~file.exists) =>
            /\ fireOutcome' = "missing"
            /\ UNCHANGED <<lastMtime, contents, syncs, doc, proc, watcher,
                           unread>>
       /\ (fireOutcome = "missing" /\ events' = events - 1) =>
            updateTimeout' > 0
       /\ (Fired /\ fireOutcome = "missing" /\ file.exists
           /\ file.mtime # lastMtime /\ fireOutcome' # "readError") =>
            StartedOneSync]_vars

\* The callback found the file missing; the file is back, and its event
\* has armed the timer again.
C18_Witness ==
    /\ fireOutcome = "missing"
    /\ file.exists
    /\ file.mtime # lastMtime
    /\ updateTimeout > 0
    /\ syncs = <<>>
    /\ contents = InitialContent
    /\ proc = "running"
    /\ watcher = "active"

(***************************************************************************)
(* C19: a sync goes through wait for the content node, injection, settle   *)
(* delay and trigger in this order: nothing is clicked or pressed before   *)
(* the sync's injection is done, and when the wait times out or the        *)
(* injection throws, the sync ends failed with no injection and no         *)
(* evaluation, and the process runs on.                                    *)
(***************************************************************************)
C19_StepOrder ==
    [][\A i \in Ids :
          LET s == syncs[i]
              t == syncs'[i]
          IN /\ t.pc # s.pc =>
                    <<s.pc, t.pc>> \in
                        {<<"wait", "inject">>, <<"inject", "settle">>,
                         <<"settle", "trigger">>, <<"trigger", "done">>,
                         <<"trigger", "click">>, <<"click", "press">>,
                         <<"press", "done">>, <<"wait", "failed">>,
                         <<"inject", "failed">>, <<"click", "failed">>}
             /\ (Injected(t) /\ ~Injected(s)) =>
                    (s.pc = "inject" /\ t.pc = "settle")
             /\ (t.via # "none" \/ t.controls # <<>> \/ t.clicked
                 \/ t.pressed) => Injected(s)
             /\ page.content # "editable" => ~Injected(t)
             /\ (t.pc = "failed" /\ s.pc \in {"wait", "inject"}) =>
                    /\ ~Injected(t)
                    /\ t.via = "none" /\ t.controls = <<>>
                    /\ ~t.clicked /\ ~t.pressed
                    /\ t.logged
                    /\ doc' = doc
                    /\ proc' = "running"]_vars

\* A sync that has gone through all four steps, and one that has ended at
\* the wait: each on its page.
C19_Witness ==
    \E i \in Ids :
        \/ /\ syncs[i].pc = "done"
           /\ Injected(syncs[i])
           /\ syncs[i].controls # <<>>
           /\ page.content = "editable"
           /\ doc = syncs[i].content
        \/ /\ syncs[i].pc = "failed"
           /\ page.content # "editable"
           /\ page.editorEl /\ IsEditorView(page.m2)
           /\ syncs[i].via = "none"

(***************************************************************************)
(* C20: a sync activates evaluation at most once: the selectors are tried  *)
(* before the button scan, the first selector that finds a clickable       *)
(* control has it clicked and nothing else is clicked, and the keyboard    *)
(* shortcut is not sent in a sync in which a control was clicked.          *)
(***************************************************************************)
C20_EvaluatedOnce ==
    \A i \in Ids :
        LET s == syncs[i] IN
        /\ Len(s.controls) + (IF s.pressed THEN 1 ELSE 0) <= 1
        /\ s.controls # <<>> => (~s.clicked /\ ~s.pressed /\ s.pc = "done")
        /\ Triggered(s) =>
              s.controls =
                  IF HtmlSelectors(page) # {}
                  THEN <<Lowest(HtmlSelectors(page))>>
                  ELSE IF page.scan THEN <<ScanButton>> ELSE <<>>

\* Two selectors find a clickable control and a button matches the scan:
\* the sync has clicked the control of the first selector only.
C20_Witness ==
    \E i \in Ids :
        /\ syncs[i].pc = "done"
        /\ Cardinality(HtmlSelectors(page)) >= 2
        /\ page.scan
        /\ syncs[i].controls = <<Lowest(HtmlSelectors(page))>>
        /\ ~syncs[i].pressed

(***************************************************************************)
(* C21: what goes wrong in the search for a control is caught and the      *)
(* keyboard fallback is still tried, and a sync that has injected does     *)
(* not count as failed when the whole evaluation trigger fails: it ends    *)
(* done, its content stays in the editor, and no error is logged for it.   *)
(***************************************************************************)
C21_TriggerFailureNotSyncFailure ==
    \A i \in Ids :
        LET s == syncs[i] IN
        /\ (Ended(s) /\ Injected(s) /\ ~TriggerEval(page).success) =>
               s.clicked
        /\ (Ended(s) /\ Injected(s)) =>
               /\ s.pc = "done"
               /\ ~s.logged
               /\ doc = s.content

(***************************************************************************)
(* C22: an injection through the editor view dispatches one update, with   *)
(* the range from 0 to the length of the document shown and the new        *)
(* content as the insert: the editor then shows the new content and        *)
(* nothing else, whatever it showed before, and the same update again      *)
(* leaves what it shows as it is.                                          *)
(***************************************************************************)
C22_FullReplacement ==
    [][\A i \in Ids :
          LET s == syncs[i]
              t == syncs'[i]
          IN /\ (t.method = "api" /\ s.method = "none") =>
                    /\ t.updates = <<[from |-> 0, to |-> Len(doc),
                                      insert |-> s.content]>>
                    /\ doc' = s.content
                    /\ ReplaceRange(doc', 0, Len(doc'), s.content) = doc'
             /\ s.method # "none" => t.updates = s.updates]_vars

\* The same content was injected twice through the editor view, one
\* update each time, and the editor shows it.
C22_Witness ==
    \E i \in Ids, j \in Ids :
        /\ i < j
        /\ syncs[i].pc = "done" /\ syncs[j].pc = "done"
        /\ syncs[i].method = "api" /\ syncs[j].method = "api"
        /\ syncs[i].content = syncs[j].content
        /\ syncs[i].content # <<>>
        /\ Len(syncs[i].updates) = 1 /\ Len(syncs[j].updates) = 1
        /\ syncs[j].updates[1].to = Len(syncs[i].content)
        /\ doc = syncs[j].content

(***************************************************************************)
(* C23: once the edits of the file have stopped and no step of a sync has  *)
(* failed, the system comes to rest (no notification pending, no timer     *)
(* armed, no sync in flight) with the editor showing the file's content:   *)
(* at rest nothing of the program is left to run, so that every state at   *)
(* rest of the watching server is one in which the editor shows the file.  *)
(***************************************************************************)
AtRest ==
    /\ proc = "running"
    /\ life.phase = "watching"
    /\ life.closing = 0
    /\ events = 0
    /\ updateTimeout = 0
    /\ InFlightIds = {}

NoStepFailed ==
    /\ \A i \in Ids : syncs[i].pc # "failed"
    /\ fireOutcome # "readError"
    /\ unread = Absent

C23_EventuallyConsistent ==
    (AtRest /\ NoStepFailed /\ file.exists) => doc = file.content

(***************************************************************************)
(* C24: once cleanup has been entered, after a signal or an error of the   *)
(* watcher, no sync is started: a timer armed before does not read the     *)
(* file and does not call updateREPLContext while the browser is closed.   *)
(***************************************************************************)
ShutdownBegun == life.closing > 0 \/ proc = "exited"

C24_NoSyncAfterShutdown ==
    [][ShutdownBegun =>
          /\ Len(syncs') = Len(syncs)
          /\ contents' = contents
          /\ lastMtime' = lastMtime]_vars

====
